---- MODULE Spec2Model ----
(***************************************************************************)
(* Batch orchestration of textbook generation (GenerationService), the     *)
(* job record it mutates (GenerationJob), and the token counter of the     *)
(* LLM client shared by the summary generators.                            *)
(*                                                                         *)
(* The specifications of the module:                                      *)
(*   Spec / LiveSpec  the orchestrator on its asyncio event loop.  A step  *)
(*         is the code between two suspension points of a coroutine.       *)
(*         generate_chapter is a synchronous call and a summary thread     *)
(*         touches nothing the orchestrator reads, so each is one step     *)
(*         that yields the call's outcome.  The client's token counter is  *)
(*         private to the client and left to ThreadSpec.                   *)
(*   ThreadSpec  the worker threads of the summary fan-out, each running   *)
(*         SummaryGenerator.generate_summary on the one shared LLMClient;  *)
(*         a step is one access to the shared counter.                     *)
(*   ClientSpec  one LLMClient used from one thread: the retry loop of     *)
(*         generate, the backoff, the pacing delay of                      *)
(*         generate_with_rate_limit_buffer and the token counter.  Delays  *)
(*         are whole seconds.                                              *)
(*   GenSpec  one call of a per-kind generator (chapter, summary, quiz,    *)
(*         booster): its attempt loop over the outcomes an attempt can     *)
(*         meet.                                                           *)
(*   CancelSpec  Spec with the cancel_job calls that return False.         *)
(*   ValSpec  one call of one method of ContentValidator on one input.     *)
(*                                                                         *)
(* job is the GenerationJob object the handlers assign to; the session is  *)
(* taken as reliable: get returns that object, commit persists what the    *)
(* handler assigned.  The table's CHECK constraints are not part of the    *)
(* state the handlers compute.                                             *)
(***************************************************************************)
EXTENDS Integers, Sequences, FiniteSets, TLC

\* ---- bounds of the model ----
MaxUnits == 2        \* curriculum sizes 1..MaxUnits
MaxTokens == 2       \* tokens_used of one provider call: 1..MaxTokens
MaxCancels == 1      \* cancel_job calls that return True
MaxRetries == 3      \* max_retries of a client: 0..MaxRetries
MaxDelay == 1        \* retry_delay of a client: 0..MaxDelay
MaxCalls == 2        \* calls of generate made on one client
MaxAttempts == 3     \* attempt cap of a generator: 0..MaxAttempts
MaxWords == 1300     \* counted words of a chapter: 0..MaxWords
MaxHeaders == 2      \* H1 headers of a chapter: 0..MaxHeaders
MaxTakeaways == 6    \* takeaways of a summary: 0..MaxTakeaways
MaxQuestions == 8    \* questions of a quiz: 0..MaxQuestions
MaxLength == 310     \* characters of a booster: 0..MaxLength

\* ---- program constants ----
max_generation_attempts == 3
\* ContentValidator
MIN_WORD_COUNT == 800
MAX_WORD_COUNT == 1200
MIN_READING_TIME == 5
MAX_READING_TIME == 7
AVERAGE_READING_SPEED == 200
min_count == 3               \* validate_summary
max_count == 5
MIN_TAKEAWAY_LENGTH == 50
MAX_TAKEAWAY_LENGTH == 150
min_questions == 5           \* validate_quiz
max_questions == 7
default_num_questions == 5   \* QuizGenerator.__init__
OPTION_COUNT == 4
MAX_CORRECT_INDEX == 3
min_length == 100            \* validate_learning_booster
max_length == 300

VARIABLES
    \* -- orchestrator --
    api_key,            \* ANTHROPIC_API_KEY present in the environment
    files,              \* units whose chapter markdown file exists
    stored,             \* the job row exists
    job,                \* the GenerationJob object
    curriculum,         \* len(curriculum) handed to the background task
    pc,                 \* position of _execute_batch_generation
    i,                  \* loop index of the chapter stage (1-based)
    result,             \* ChapterGenerationResult of unit i
    dispatched,         \* units whose generate_chapter call has begun
    chapter_rows,       \* status of the Chapter record of each unit
    unit_outcome,       \* chapter stage: "ok" after the progress increment,
                        \* "failed" after the error record, else "none"
    spc,                \* position of each _generate_single_summary task
    sresult,            \* tokens_used of each SummaryGenerationResult
    stage_base,         \* job counters when the summary fan-out was awaited
    cancels,            \* cancel_job calls that returned True
    slept,              \* units after which the pacing sleep was taken
    cancel_call,        \* the last cancel_job call: row found, value returned
    \* -- worker threads on the shared client --
    threads,            \* number of generate_summary threads started
    tpc,                \* position of each thread
    sattempt,           \* attempt of generate_summary per thread
    sread,              \* total_tokens_used as read by the thread
    tcall,              \* tokens_used of the provider answer in hand
    tresult,            \* tokens_used of the result the thread returned
    total_tokens_used,  \* LLMClient.total_tokens_used
    provider_tokens,    \* tokens of every successful provider call, summed
    \* -- one client used sequentially --
    cpc,                \* position of the client's caller
    max_retries,        \* LLMClient.max_retries
    retry_delay,        \* LLMClient.retry_delay
    via_buffer,         \* the call entered generate_with_rate_limit_buffer
    attempt,            \* loop variable of generate (0-based)
    requests,           \* provider requests made by the current call
    last_failure,       \* exception class of the last failed request
    wait_time,          \* value of _calculate_backoff in the handler
    backoffs,           \* backoff sleeps of the current call
    buffers,            \* pacing sleeps of the current call
    gresult,            \* tokens_used of the GenerationResult, 0 if none
    calls,              \* calls of generate made so far
    last_read,          \* last value returned by get_total_tokens_used
    \* -- one call of a per-kind generator --
    gen_pc,             \* position of the generator
    gen_kind,           \* which generator
    max_attempts,       \* its max_generation_attempts / max_attempts
    enforce,            \* enforce_word_count / enforce_validation
    gen_attempt,        \* loop variable of the generator (1-based)
    history,            \* what each attempt so far has met
    gen_result,         \* the result returned, NoGenResult if none
    gen_calls,          \* calls of generate_with_rate_limit_buffer made
    user_prompt,        \* the base prompt and the addenda appended to it
    sent_prompt,        \* the prompt the last call was made with
    client_retries,     \* max_retries of the generator's LLMClient
    gen_requests,       \* provider requests made for the invocation
    \* -- one call of the content validator --
    val_pc,             \* which validator method was called, idle if none
    val_input,          \* the content it was given
    val_result          \* the ValidationResult it returned

batchVars == <<api_key, files, stored, job, curriculum, pc, i, result,
               dispatched, chapter_rows, unit_outcome, spc, sresult,
               stage_base, cancels, slept, cancel_call>>

threadVars == <<threads, tpc, sattempt, sread, tcall, tresult,
                total_tokens_used, provider_tokens>>

clientVars == <<cpc, max_retries, retry_delay, via_buffer, attempt, requests,
                last_failure, wait_time, backoffs, buffers, gresult, calls,
                last_read>>

genVars == <<gen_pc, gen_kind, max_attempts, enforce, gen_attempt, history,
             gen_result, gen_calls, user_prompt, sent_prompt, client_retries,
             gen_requests>>

valVars == <<val_pc, val_input, val_result>>

vars == <<batchVars, threadVars, clientVars, genVars, valVars>>

Units == 1..MaxUnits
Tokens == 1..MaxTokens

NoResult == [tokens_used |-> 0, validation_passed |-> FALSE]

\* GenerationJob(status=PENDING, chapters_completed=0, chapters_total=n,
\*               errors=[], token_usage=0)
GenerationJob(n) ==
    [status |-> "pending", chapters_completed |-> 0, chapters_total |-> n,
     errors |-> << >>, token_usage |-> 0, completed_at |-> FALSE]

is_complete_completed(j) == j.status = "completed"

is_complete(j) == j.status \in {"completed", "failed"}

add_error(j, msg) == [j EXCEPT !.errors = Append(@, msg)]

update_job_status_unset(j, new_status) == j

update_job_status(j, new_status) == [j EXCEPT !.status = new_status]

increment_job_progress_assign(j, tokens_used) ==
    [j EXCEPT !.chapters_completed = @ + 1, !.token_usage = tokens_used]

increment_job_progress(j, tokens_used) ==
    [j EXCEPT !.chapters_completed = @ + 1, !.token_usage = @ + tokens_used]

add_job_error_counting(j, msg) ==
    add_error([j EXCEPT !.chapters_completed = @ + 1], msg)

add_job_error_twice(j, msg) == add_error(add_error(j, msg), msg)

add_job_error(j, msg) == add_error(j, msg)

complete_job_strict(j) ==
    [j EXCEPT !.status = IF Len(j.errors) > 0 THEN "failed" ELSE "completed",
              !.completed_at = TRUE]

complete_job_no_status(j) == [j EXCEPT !.completed_at = TRUE]

complete_job(j) == [j EXCEPT !.status = "completed", !.completed_at = TRUE]

fail_job(j, msg) ==
    add_error([j EXCEPT !.status = "failed", !.completed_at = TRUE], msg)

cancelled(j) ==
    add_error([j EXCEPT !.status = "failed", !.completed_at = TRUE],
              [kind |-> "cancel", unit |-> 0])

Init ==
    /\ api_key \in BOOLEAN
    /\ files \in SUBSET Units
    /\ stored = FALSE
    /\ cancel_call = [made |-> FALSE, found |-> FALSE, returned |-> FALSE]
    /\ job = GenerationJob(0)
    /\ curriculum = 0
    /\ pc = "idle"
    /\ i = 0
    /\ result = NoResult
    /\ dispatched = {}
    /\ chapter_rows = [u \in Units |-> "none"]
    /\ unit_outcome = [u \in Units |-> "none"]
    /\ spc = [u \in Units |-> "none"]
    /\ sresult = [u \in Units |-> 0]
    /\ stage_base = [chapters_completed |-> 0, token_usage |-> 0]
    /\ cancels = 0
    /\ slept = {}
    /\ threads = 0
    /\ tpc = [u \in Units |-> "none"]
    /\ sattempt = [u \in Units |-> 0]
    /\ sread = [u \in Units |-> 0]
    /\ tcall = [u \in Units |-> 0]
    /\ tresult = [u \in Units |-> 0]
    /\ total_tokens_used = 0
    /\ provider_tokens = 0
    /\ cpc = "none"
    /\ max_retries = 0
    /\ retry_delay = 0
    /\ via_buffer = FALSE
    /\ attempt = 0
    /\ requests = 0
    /\ last_failure = "none"
    /\ wait_time = 0
    /\ backoffs = 0
    /\ buffers = 0
    /\ gresult = 0
    /\ calls = 0
    /\ last_read = 0
    /\ gen_pc = "none"
    /\ gen_kind = "chapter"
    /\ max_attempts = 0
    /\ enforce = FALSE
    /\ gen_attempt = 0
    /\ history = << >>
    /\ gen_result = [generation_attempts |-> 0, validation_passed |-> FALSE,
                     tokens_used |-> 0]
    /\ gen_calls = 0
    /\ user_prompt = <<"base">>
    /\ sent_prompt = << >>
    /\ client_retries = 0
    /\ gen_requests = 0
    /\ val_pc = "idle"
    /\ val_input = << >>
    /\ val_result = [valid |-> TRUE, errors |-> << >>, warnings |-> << >>,
                     metrics |-> << >>]

\* ======================= the orchestrator =======================

\* ---- start_batch_generation: create the job, schedule the task ----
start_batch_generation ==
    /\ pc = "idle"
    /\ \E n \in Units :
          /\ job' = GenerationJob(n)
          /\ curriculum' = n
    /\ stored' = TRUE
    /\ pc' = "created"
    /\ UNCHANGED <<api_key, files, i, result, dispatched, chapter_rows,
                   unit_outcome, spc, sresult, stage_base, cancels>>
    /\ UNCHANGED <<slept, cancel_call>>
    /\ UNCHANGED <<threadVars, clientVars, genVars, valVars>>

\* ---- _execute_batch_generation: _update_job_status(IN_PROGRESS) ----
BeginExecution ==
    /\ pc = "created"
    /\ job' = update_job_status(job, "in_progress")
    /\ pc' = "init_client"
    /\ UNCHANGED <<api_key, files, stored, curriculum, i, result, dispatched,
                   chapter_rows, unit_outcome, spc, sresult, stage_base,
                   cancels>>
    /\ UNCHANGED <<slept, cancel_call>>
    /\ UNCHANGED <<threadVars, clientVars, genVars, valVars>>

\* ---- LLMClient(): raises ValueError without an API key; the exception is
\* outside the per-unit handlers and reaches the outer handler ----
InitClient ==
    /\ pc = "init_client"
    /\ IF api_key
          THEN /\ pc' = "chapters"
               /\ i' = 1
          ELSE /\ pc' = "fail"
               /\ UNCHANGED i
    /\ UNCHANGED <<api_key, files, stored, job, curriculum, result,
                   dispatched, chapter_rows, unit_outcome, spc, sresult,
                   stage_base, cancels>>
    /\ UNCHANGED <<slept, cancel_call>>
    /\ UNCHANGED <<threadVars, clientVars, genVars, valVars>>

LoopDoneEarly(idx, n) == idx >= n

LoopDone(idx, n) == idx > n

NextUnit(idx) == idx + 1

NeedsDelay_always(idx, n) == idx <= n

\* `if i < len(curriculum)` before asyncio.sleep
NeedsDelay(idx, n) == idx < n

\* ---- unit i: generate_chapter, validate_chapter, create_chapter ----
\* generate_chapter raises GenerationError (raised) or returns a result whose
\* validation_passed tells whether the word count is in [800,1200].
\* create_chapter raises ValueError when result.word_count is outside
\* [800,1200]; with the count in range it can still raise on the reading
\* time the validator derived (record_ok = FALSE).  The Chapter row is
\* VALIDATED or FAILED by the validator's verdict (valid).  result is
\* assigned as soon as generate_chapter has returned.
ChapterGenerate ==
    /\ pc = "chapters"
    /\ ~LoopDone(i, curriculum)
    /\ dispatched' = dispatched \cup {i}
    /\ \E raised \in BOOLEAN, t \in Tokens, passed \in BOOLEAN,
          record_ok \in BOOLEAN, valid \in BOOLEAN :
          IF raised
             THEN /\ pc' = "chapter_error"
                  /\ UNCHANGED <<result, chapter_rows>>
             ELSE IF passed /\ record_ok
                     THEN /\ result' = [tokens_used |-> t,
                                        validation_passed |-> passed]
                          /\ chapter_rows' =
                                [chapter_rows EXCEPT ![i] =
                                    IF valid THEN "validated" ELSE "failed"]
                          /\ pc' = "increment"
                     ELSE /\ result' = [tokens_used |-> t,
                                        validation_passed |-> passed]
                          /\ pc' = "chapter_error"
                          /\ UNCHANGED chapter_rows
    /\ UNCHANGED <<api_key, files, stored, job, curriculum, i, unit_outcome,
                   spc, sresult, stage_base, cancels>>
    /\ UNCHANGED <<slept, cancel_call>>
    /\ UNCHANGED <<threadVars, clientVars, genVars, valVars>>

\* ---- _increment_job_progress for unit i, then the pacing decision ----
ChapterIncrement ==
    /\ pc = "increment"
    /\ job' = increment_job_progress(job, result.tokens_used)
    /\ unit_outcome' = [unit_outcome EXCEPT ![i] = "ok"]
    /\ result' = NoResult
    /\ IF NeedsDelay(i, curriculum)
          THEN /\ pc' = "sleep"
               /\ UNCHANGED i
          ELSE /\ pc' = "chapters"
               /\ i' = NextUnit(i)
    /\ UNCHANGED <<api_key, files, stored, curriculum, dispatched,
                   chapter_rows, spc, sresult, stage_base, cancels>>
    /\ UNCHANGED <<slept, cancel_call>>
    /\ UNCHANGED <<threadVars, clientVars, genVars, valVars>>

\* ---- asyncio.sleep(GENERATION_DELAY_SECONDS) returns ----
PacingSleep ==
    /\ pc = "sleep"
    /\ slept' = slept \cup {i}
    /\ pc' = "chapters"
    /\ i' = NextUnit(i)
    /\ UNCHANGED <<api_key, files, stored, job, curriculum, result,
                   dispatched, chapter_rows, unit_outcome, spc, sresult,
                   stage_base, cancels, cancel_call>>
    /\ UNCHANGED <<threadVars, clientVars, genVars, valVars>>

\* ---- per-unit except: _add_job_error, continue with the next unit ----
ChapterError ==
    /\ pc = "chapter_error"
    /\ job' = add_job_error(job, [kind |-> "chapter", unit |-> i])
    /\ unit_outcome' = [unit_outcome EXCEPT ![i] = "failed"]
    /\ result' = NoResult
    /\ pc' = "chapters"
    /\ i' = NextUnit(i)
    /\ UNCHANGED <<api_key, files, stored, curriculum, dispatched,
                   chapter_rows, spc, sresult, stage_base, cancels>>
    /\ UNCHANGED <<slept, cancel_call>>
    /\ UNCHANGED <<threadVars, clientVars, genVars, valVars>>

\* ---- _generate_summaries_for_chapters: create the tasks, await gather ----
StartSummaries ==
    /\ pc = "chapters"
    /\ LoopDone(i, curriculum)
    /\ spc' = [u \in Units |-> IF u <= curriculum THEN "new" ELSE "none"]
    /\ stage_base' = [chapters_completed |-> job.chapters_completed,
                      token_usage |-> job.token_usage]
    /\ pc' = "gather"
    /\ UNCHANGED <<api_key, files, stored, job, curriculum, i, result,
                   dispatched, chapter_rows, unit_outcome, sresult, cancels>>
    /\ UNCHANGED <<slept, cancel_call>>
    /\ UNCHANGED <<threadVars, clientVars, genVars, valVars>>

\* ---- _generate_single_summary up to its progress increment ----
\* The task looks up the chapter file (FileNotFoundError when missing), runs
\* generate_summary in a thread, which raises GenerationError (raised) or
\* returns a result of t tokens, and appends the summary to the file.
SummaryGenerate(u) ==
    /\ spc[u] = "new"
    /\ \E raised \in BOOLEAN, t \in Tokens :
          IF u \notin files \/ raised
             THEN /\ spc' = [spc EXCEPT ![u] = "failed"]
                  /\ UNCHANGED sresult
             ELSE /\ spc' = [spc EXCEPT ![u] = "increment"]
                  /\ sresult' = [sresult EXCEPT ![u] = t]
    /\ UNCHANGED <<api_key, files, stored, job, curriculum, pc, i, result,
                   dispatched, chapter_rows, unit_outcome, stage_base,
                   cancels>>
    /\ UNCHANGED <<slept, cancel_call>>
    /\ UNCHANGED <<threadVars, clientVars, genVars, valVars>>

\* ---- _increment_job_progress of a summary task, on the event loop ----
SummaryIncrement(u) ==
    /\ spc[u] = "increment"
    /\ job' = increment_job_progress(job, sresult[u])
    /\ spc' = [spc EXCEPT ![u] = "ok"]
    /\ UNCHANGED <<api_key, files, stored, curriculum, pc, i, result,
                   dispatched, chapter_rows, unit_outcome, sresult,
                   stage_base, cancels>>
    /\ UNCHANGED <<slept, cancel_call>>
    /\ UNCHANGED <<threadVars, clientVars, genVars, valVars>>

SummaryUnits == {u \in Units : u <= curriculum}

FailedSummaries_none == {}

FailedSummaries == {u \in SummaryUnits : spc[u] = "failed"}

\* ---- gather returns: count the failures, one job error if any ----
GatherDone ==
    /\ pc = "gather"
    /\ \A u \in SummaryUnits : spc[u] \in {"ok", "failed"}
    /\ job' = IF Cardinality(FailedSummaries) > 0
                 THEN add_job_error(job, [kind |-> "summaries",
                                          unit |-> Cardinality(FailedSummaries)])
                 ELSE job
    /\ pc' = "complete"
    /\ UNCHANGED <<api_key, files, stored, curriculum, i, result, dispatched,
                   chapter_rows, unit_outcome, spc, sresult, stage_base,
                   cancels>>
    /\ UNCHANGED <<slept, cancel_call>>
    /\ UNCHANGED <<threadVars, clientVars, genVars, valVars>>

\* ---- _complete_job ----
CompleteJob ==
    /\ pc = "complete"
    /\ job' = complete_job(job)
    /\ pc' = "done"
    /\ UNCHANGED <<api_key, files, stored, curriculum, i, result, dispatched,
                   chapter_rows, unit_outcome, spc, sresult, stage_base,
                   cancels>>
    /\ UNCHANGED <<slept, cancel_call>>
    /\ UNCHANGED <<threadVars, clientVars, genVars, valVars>>

\* ---- outer except: _fail_job ----
FailJob ==
    /\ pc = "fail"
    /\ job' = fail_job(job, [kind |-> "batch", unit |-> 0])
    /\ pc' = "done"
    /\ UNCHANGED <<api_key, files, stored, curriculum, i, result, dispatched,
                   chapter_rows, unit_outcome, spc, sresult, stage_base,
                   cancels>>
    /\ UNCHANGED <<slept, cancel_call>>
    /\ UNCHANGED <<threadVars, clientVars, genVars, valVars>>

\* ---- cancel_job returning True, called by another request ----
cancel_job ==
    /\ cancels < MaxCancels
    /\ stored
    /\ ~is_complete(job)
    /\ job' = cancelled(job)
    /\ cancels' = cancels + 1
    /\ cancel_call' = [made |-> TRUE, found |-> TRUE, returned |-> TRUE]
    /\ UNCHANGED <<api_key, files, stored, curriculum, pc, i, result,
                   dispatched, chapter_rows, unit_outcome, spc, sresult,
                   stage_base>>
    /\ UNCHANGED slept
    /\ UNCHANGED <<threadVars, clientVars, genVars, valVars>>

\* ---- cancel_job returning False: _get_job finds no row for the id, or
\* the job it finds is complete ----
cancel_job_refused ==
    /\ \E found \in BOOLEAN :
          /\ found => stored /\ is_complete(job)
          /\ cancel_call' = [made |-> TRUE, found |-> found,
                             returned |-> FALSE]
    /\ UNCHANGED <<api_key, files, stored, job, curriculum, pc, i, result,
                   dispatched, chapter_rows, unit_outcome, spc, sresult,
                   stage_base, cancels>>
    /\ UNCHANGED slept
    /\ UNCHANGED <<threadVars, clientVars, genVars, valVars>>

\* steps of the background task and of its summary tasks
TaskStep ==
    \/ BeginExecution
    \/ InitClient
    \/ ChapterGenerate
    \/ ChapterIncrement
    \/ PacingSleep
    \/ ChapterError
    \/ StartSummaries
    \/ \E u \in Units : SummaryGenerate(u)
    \/ \E u \in Units : SummaryIncrement(u)
    \/ GatherDone
    \/ CompleteJob
    \/ FailJob

Next ==
    \/ start_batch_generation
    \/ TaskStep
    \/ cancel_job

Spec == Init /\ [][Next]_vars

\* The event loop runs every ready coroutine and every thread returns.
LiveSpec == Init /\ [][Next]_vars /\ WF_vars(TaskStep)

\* CancelSpec: the orchestrator together with the cancel_job calls that
\* return False, which change nothing the task reads.
CancelNext ==
    \/ start_batch_generation
    \/ TaskStep
    \/ cancel_job
    \/ cancel_job_refused

CancelSpec == Init /\ [][CancelNext]_vars

\* ============ worker threads on the shared LLMClient ============

Threads == {u \in Units : u <= threads}

\* ---- the fan-out hands generate_summary to one thread per unit; the
\* client has counted b tokens in the chapter stage, all of them summed ----
FanOut ==
    /\ threads = 0
    /\ \E n \in Units, b \in 0..MaxTokens :
          /\ threads' = n
          /\ total_tokens_used' = b
          /\ provider_tokens' = b
          /\ tpc' = [u \in Units |-> IF u <= n THEN "calling" ELSE "none"]
          /\ sattempt' = [u \in Units |-> IF u <= n THEN 1 ELSE 0]
    /\ UNCHANGED <<sread, tcall, tresult>>
    /\ UNCHANGED <<batchVars, clientVars, genVars, valVars>>

\* ---- one call of LLMClient.generate in a thread ----
\* ok: the provider answered with t tokens and the thread has read the
\* counter for `self.total_tokens_used += tokens_used`.  Otherwise generate
\* raised GenerationError and generate_summary retries or re-raises.
ThreadCall(u) ==
    /\ tpc[u] = "calling"
    /\ \E ok \in BOOLEAN, t \in Tokens :
          IF ok
             THEN /\ sread' = [sread EXCEPT ![u] = total_tokens_used]
                  /\ tcall' = [tcall EXCEPT ![u] = t]
                  /\ provider_tokens' = provider_tokens + t
                  /\ tpc' = [tpc EXCEPT ![u] = "adding"]
                  /\ UNCHANGED sattempt
             ELSE /\ IF sattempt[u] >= max_generation_attempts
                        THEN /\ tpc' = [tpc EXCEPT ![u] = "raised"]
                             /\ UNCHANGED sattempt
                        ELSE /\ sattempt' = [sattempt EXCEPT ![u] = @ + 1]
                             /\ UNCHANGED tpc
                  /\ UNCHANGED <<sread, tcall, provider_tokens>>
    /\ UNCHANGED <<threads, total_tokens_used, tresult>>
    /\ UNCHANGED <<batchVars, clientVars, genVars, valVars>>

\* ---- the thread stores the sum, then parses and validates the answer ----
\* content "unparseable": _parse_takeaways_json raised; "invalid" / "valid":
\* the verdict of validate_summary.
ThreadAdd(u) ==
    /\ tpc[u] = "adding"
    /\ total_tokens_used' = sread[u] + tcall[u]
    /\ sread' = [sread EXCEPT ![u] = 0]
    /\ tcall' = [tcall EXCEPT ![u] = 0]
    /\ \E content \in {"unparseable", "invalid", "valid"} :
          IF content # "valid" /\ sattempt[u] < max_generation_attempts
             THEN /\ sattempt' = [sattempt EXCEPT ![u] = @ + 1]
                  /\ tpc' = [tpc EXCEPT ![u] = "calling"]
                  /\ UNCHANGED tresult
             ELSE /\ tpc' = [tpc EXCEPT ![u] =
                                IF content = "unparseable" THEN "raised"
                                                           ELSE "returned"]
                  /\ tresult' = [tresult EXCEPT ![u] =
                                    IF content = "unparseable" THEN 0
                                                               ELSE tcall[u]]
                  /\ UNCHANGED sattempt
    /\ UNCHANGED <<threads, provider_tokens>>
    /\ UNCHANGED <<batchVars, clientVars, genVars, valVars>>

ThreadNext ==
    \/ FanOut
    \/ \E u \in Units : ThreadCall(u)
    \/ \E u \in Units : ThreadAdd(u)

ThreadSpec == Init /\ [][ThreadNext]_vars

\* ================ one LLMClient used sequentially ================

threadLocals == <<threads, tpc, sattempt, sread, tcall, tresult>>

Failures == {"rate", "conn", "api", "other"}

Retryable_any(kind) == kind \in Failures

Retryable_api(kind) == kind \in {"rate", "conn", "api"}

\* except RateLimitError / except APIConnectionError: the retrying handlers
Retryable(kind) == kind \in {"rate", "conn"}

\* `if attempt < self.max_retries - 1` of the retrying handlers
RetryAllowed(k, max) == k < max - 1

calculate_backoff_wide(base, k) == 0..(base * 2^(k + 1))

\* _calculate_backoff: random.uniform(0, retry_delay * 2**attempt)
calculate_backoff(base, k) == 0..(base * 2^k)

add_tokens_assign(total, tokens_used) == tokens_used

\* self.total_tokens_used += tokens_used
add_tokens(total, tokens_used) == total + tokens_used

rate_limit_buffer_always(ok, buf) ==
    IF buf THEN "buffer" ELSE IF ok THEN "returned" ELSE "raised"

\* where the caller stands once generate has returned (ok) or raised:
\* generate_with_rate_limit_buffer sleeps only after generate returned
rate_limit_buffer(ok, buf) ==
    IF ok THEN (IF buf THEN "buffer" ELSE "returned") ELSE "raised"

Idle == cpc \in {"ready", "returned", "raised"}

\* ---- LLMClient(api_key, max_retries, retry_delay) ----
LLMClientInit ==
    /\ cpc = "none"
    /\ max_retries' \in 0..MaxRetries
    /\ retry_delay' \in 0..MaxDelay
    /\ total_tokens_used' = 0
    /\ provider_tokens' = 0
    /\ cpc' = "ready"
    /\ UNCHANGED <<via_buffer, attempt, requests, last_failure, wait_time,
                   backoffs, buffers, gresult, calls, last_read>>
    /\ UNCHANGED <<batchVars, threadLocals, genVars, valVars>>

\* ---- generate / generate_with_rate_limit_buffer is called ----
\* With max_retries = 0 the loop body never runs and the final raise is
\* reached at once.
generate ==
    /\ Idle
    /\ calls < MaxCalls
    /\ calls' = calls + 1
    /\ via_buffer' \in BOOLEAN
    /\ attempt' = 0
    /\ requests' = 0
    /\ last_failure' = "none"
    /\ wait_time' = 0
    /\ backoffs' = 0
    /\ buffers' = 0
    /\ gresult' = 0
    /\ cpc' = IF 0 < max_retries THEN "request"
                                 ELSE rate_limit_buffer(FALSE, via_buffer')
    /\ UNCHANGED <<max_retries, retry_delay, last_read, total_tokens_used,
                   provider_tokens>>
    /\ UNCHANGED <<batchVars, threadLocals, genVars, valVars>>

\* ---- one pass of the loop body: the provider request and its handler ----
ProviderRequest ==
    /\ cpc = "request"
    /\ requests' = requests + 1
    /\ \E outcome \in {"ok"} \cup Failures, t \in Tokens,
          w \in calculate_backoff(retry_delay, attempt) :
          IF outcome = "ok"
             THEN /\ total_tokens_used' = add_tokens(total_tokens_used, t)
                  /\ provider_tokens' = provider_tokens + t
                  /\ gresult' = t
                  /\ cpc' = rate_limit_buffer(TRUE, via_buffer)
                  /\ UNCHANGED <<last_failure, wait_time>>
             ELSE /\ last_failure' = outcome
                  /\ IF Retryable(outcome)
                        THEN /\ wait_time' = w
                             /\ cpc' = IF RetryAllowed(attempt, max_retries)
                                          THEN "backoff"
                                          ELSE rate_limit_buffer(FALSE,
                                                                 via_buffer)
                        ELSE /\ UNCHANGED wait_time
                             /\ cpc' = rate_limit_buffer(FALSE, via_buffer)
                  /\ UNCHANGED <<total_tokens_used, provider_tokens, gresult>>
    /\ UNCHANGED <<max_retries, retry_delay, via_buffer, attempt, backoffs,
                   buffers, calls, last_read>>
    /\ UNCHANGED <<batchVars, threadLocals, genVars, valVars>>

\* ---- time.sleep(wait_time) returns; the loop takes its next value ----
\* (the handler's wait_time is dead from here on)
BackoffSleep ==
    /\ cpc = "backoff"
    /\ backoffs' = backoffs + 1
    /\ attempt' = attempt + 1
    /\ wait_time' = 0
    /\ cpc' = IF attempt + 1 < max_retries
                 THEN "request"
                 ELSE rate_limit_buffer(FALSE, via_buffer)
    /\ UNCHANGED <<max_retries, retry_delay, via_buffer, requests,
                   last_failure, buffers, gresult, calls,
                   last_read, total_tokens_used, provider_tokens>>
    /\ UNCHANGED <<batchVars, threadLocals, genVars, valVars>>

\* ---- time.sleep(RATE_LIMIT_BUFFER) returns ----
BufferSleep ==
    /\ cpc = "buffer"
    /\ buffers' = buffers + 1
    /\ cpc' = IF gresult > 0 THEN "returned" ELSE "raised"
    /\ UNCHANGED <<max_retries, retry_delay, via_buffer, attempt, requests,
                   last_failure, wait_time, backoffs, gresult, calls,
                   last_read, total_tokens_used, provider_tokens>>
    /\ UNCHANGED <<batchVars, threadLocals, genVars, valVars>>

\* ---- get_total_tokens_used ----
get_total_tokens_used ==
    /\ Idle
    /\ last_read' = total_tokens_used
    /\ UNCHANGED <<cpc, max_retries, retry_delay, via_buffer, attempt,
                   requests, last_failure, wait_time, backoffs, buffers,
                   gresult, calls, total_tokens_used, provider_tokens>>
    /\ UNCHANGED <<batchVars, threadLocals, genVars, valVars>>

\* ---- reset_token_counter (provider_tokens counts from the last reset) ----
reset_token_counter ==
    /\ Idle
    /\ total_tokens_used' = 0
    /\ provider_tokens' = 0
    /\ UNCHANGED <<cpc, max_retries, retry_delay, via_buffer, attempt,
                   requests, last_failure, wait_time, backoffs, buffers,
                   gresult, calls, last_read>>
    /\ UNCHANGED <<batchVars, threadLocals, genVars, valVars>>

ClientNext ==
    \/ LLMClientInit
    \/ generate
    \/ ProviderRequest
    \/ BackoffSleep
    \/ BufferSleep
    \/ get_total_tokens_used
    \/ reset_token_counter

ClientSpec == Init /\ [][ClientNext]_vars

\* ==================== the per-kind generators ====================

Kinds == {"chapter", "summary", "quiz", "booster"}

NoGenResult ==
    [generation_attempts |-> 0, validation_passed |-> FALSE, tokens_used |-> 0]

\* what one attempt can meet: the client raised GenerationError
\* ("provider_error"); the output is not a JSON array ("unparseable"); it is
\* an array with an element that is not of the expected shape ("bad_item");
\* it parsed and failed the validator or the word count ("invalid"); it
\* passed ("valid").  A chapter is raw markdown and is never parsed.
Outcomes(kind) ==
    IF kind = "chapter" THEN {"provider_error", "invalid", "valid"}
    ELSE {"provider_error", "unparseable", "bad_item", "invalid", "valid"}

\* the parser raises json.JSONDecodeError or ValueError: always for text
\* that is no JSON array; for a misshapen element only in
\* _parse_takeaways_json and _parse_quiz_json, which inspect the elements
\* (_parse_boosters_json checks the top-level type only)
ParseFails(kind, o) ==
    \/ o = "unparseable"
    \/ (o = "bad_item" /\ kind \in {"summary", "quiz"})

AttemptsRemain_last(a, cap) == a <= cap

AttemptsRemain_never(a, cap) == FALSE

\* `if attempt < self.max_generation_attempts` of the parse and the
\* validation branches
AttemptsRemain(a, cap) == a < cap

LastAttempt_any(a, cap) == TRUE

\* `if attempt >= self.max_generation_attempts: raise` of
\* `except GenerationError`
LastAttempt(a, cap) == a >= cap

RetryOnInvalid_booster(kind, enf) == enf

RetryOnInvalid_always(kind, enf) == kind # "booster"

\* `if self.enforce_word_count` / `if self.enforce_validation and not
\* validation_result.valid`; generate_boosters returns whatever all_valid is
RetryOnInvalid(kind, enf) == kind # "booster" /\ enf

ClientRequests_extra(o, retries) == 1..(retries + 1)

\* the provider requests of one call of generate_with_rate_limit_buffer:
\* the loop of LLMClient.generate runs at most max_retries times; it
\* returns on the first answer and raises GenerationError on a failure
\* that is not retried, after the last pass, or at once with no pass
ClientRequests(o, retries) ==
    IF o = "provider_error" /\ retries = 0 THEN {0} ELSE 1..retries

\* what the loop body does with the outcome of attempt a
attempt_outcome(kind, o, a, cap, enf) ==
    IF o = "provider_error"
       THEN (IF LastAttempt(a, cap) THEN "raise_generation" ELSE "retry")
    ELSE IF ParseFails(kind, o)
       THEN (IF AttemptsRemain(a, cap) THEN "retry" ELSE "raise_generation")
    ELSE IF o = "bad_item"
       THEN "raise_other"
    ELSE IF o = "invalid"
       THEN (IF RetryOnInvalid(kind, enf) /\ AttemptsRemain(a, cap)
                THEN "retry" ELSE "return")
    ELSE "return"

GenerationResult_first(a, o, t) ==
    [generation_attempts |-> 1, validation_passed |-> (o = "valid"),
     tokens_used |-> t]

\* the result built on return: generation_attempts = attempt,
\* validation_passed = the verdict on the returned content, tokens_used =
\* result.tokens_used of the last client call
GenerationResult(a, o, t) ==
    [generation_attempts |-> a, validation_passed |-> (o = "valid"),
     tokens_used |-> t]

next_prompt_same(kind, o, prompt) == prompt

\* the prompt of the next attempt after outcome o led to a retry:
\* _add_json_format_emphasis after a parse failure and
\* _add_validation_emphasis / _add_word_count_emphasis after a validation
\* failure return original_prompt + emphasis; nothing is appended after a
\* client failure; generate_boosters rebuilds its prompt from the same
\* arguments on every attempt
next_prompt(kind, o, prompt) ==
    IF kind = "booster" \/ o = "provider_error" THEN prompt
    ELSE IF ParseFails(kind, o) THEN Append(prompt, "format")
    ELSE Append(prompt, "validation")

\* ---- a generator is built and its generate method is called ----
\* With a cap below 1 the loop body never runs and the final raise is
\* reached at once.
GeneratorCall ==
    /\ gen_pc = "none"
    /\ gen_kind' \in Kinds
    /\ max_attempts' \in 0..MaxAttempts
    /\ enforce' \in BOOLEAN
    /\ gen_attempt' = 1
    /\ client_retries' \in 0..MaxRetries
    /\ gen_pc' = IF max_attempts' >= 1 THEN "drafting" ELSE "raised_generation"
    /\ UNCHANGED <<history, gen_result, gen_calls, user_prompt, sent_prompt,
                   gen_requests>>
    /\ UNCHANGED <<batchVars, threadVars, clientVars, valVars>>

\* ---- one pass of the attempt loop ----
GeneratorAttempt ==
    /\ gen_pc = "drafting"
    /\ \E o \in Outcomes(gen_kind), t \in Tokens :
          LET next == attempt_outcome(gen_kind, o, gen_attempt, max_attempts,
                                      enforce)
          IN /\ \E r \in ClientRequests(o, client_retries) :
                    gen_requests' = gen_requests + r
             /\ history' = Append(history, o)
             /\ gen_calls' = gen_calls + 1
             /\ sent_prompt' = user_prompt
             /\ user_prompt' = IF next = "retry"
                                  THEN next_prompt(gen_kind, o, user_prompt)
                                  ELSE user_prompt
             /\ IF next = "retry"
                   THEN /\ gen_attempt' = gen_attempt + 1
                        /\ gen_pc' = IF gen_attempt + 1 <= max_attempts
                                        THEN "drafting"
                                        ELSE "raised_generation"
                        /\ UNCHANGED gen_result
                   ELSE /\ gen_pc' = CASE next = "return" -> "returned"
                                       [] next = "raise_generation" ->
                                             "raised_generation"
                                       [] OTHER -> "raised_other"
                        /\ gen_result' =
                              IF next = "return"
                                 THEN GenerationResult(gen_attempt, o, t)
                                 ELSE gen_result
                        /\ UNCHANGED gen_attempt
    /\ UNCHANGED <<gen_kind, max_attempts, enforce, client_retries>>
    /\ UNCHANGED <<batchVars, threadVars, clientVars, valVars>>

GenNext ==
    \/ GeneratorCall
    \/ GeneratorAttempt

GenSpec == Init /\ [][GenNext]_vars

\* ======================= the content validator =======================
\* ValSpec: one call of one method of ContentValidator on an input drawn
\* from a bounded set.  A string is given by what the validator asks of
\* it: len(s) and whether s.strip() is empty; chapter content by its
\* header counts, its counted words, whether markdown-it yields any token
\* and whether a learning-objectives section is found.  An error or a
\* warning is the rule that wrote it.

RECURSIVE Concat(_)
Concat(seqs) ==
    IF seqs = << >> THEN << >> ELSE Head(seqs) \o Concat(Tail(seqs))

ValidationResult(errors, warnings, metrics) ==
    [valid |-> Len(errors) = 0, errors |-> errors, warnings |-> warnings,
     metrics |-> metrics]

\* ---- validate_chapter ----
_validate_markdown_syntax(content) ==
    IF content.tokens = 0 THEN <<"syntax">> ELSE << >>

_validate_structure(content) ==
    (IF content.h1 = 0 THEN <<"no_h1">>
     ELSE IF content.h1 > 1 THEN <<"many_h1">> ELSE << >>)
    \o (IF content.h2 = 0 THEN <<"no_h2">> ELSE << >>)

_validate_word_count_inclusive(word_count) ==
    IF word_count <= MIN_WORD_COUNT THEN <<"word_count_low">>
    ELSE IF word_count >= MAX_WORD_COUNT THEN <<"word_count_high">>
    ELSE << >>

_validate_word_count(word_count) ==
    IF word_count < MIN_WORD_COUNT THEN <<"word_count_low">>
    ELSE IF word_count > MAX_WORD_COUNT THEN <<"word_count_high">>
    ELSE << >>

\* round(word_count / 200): Python rounds a half to the even neighbour
_calculate_reading_time(word_count) ==
    LET q == word_count \div AVERAGE_READING_SPEED
        r == word_count % AVERAGE_READING_SPEED
    IN  IF 2 * r < AVERAGE_READING_SPEED THEN q
        ELSE IF 2 * r > AVERAGE_READING_SPEED THEN q + 1
        ELSE IF q % 2 = 0 THEN q ELSE q + 1

_validate_reading_time(reading_time) ==
    IF reading_time < MIN_READING_TIME THEN <<"reading_time_short">>
    ELSE IF reading_time > MAX_READING_TIME THEN <<"reading_time_long">>
    ELSE << >>

validate_chapter(content) ==
    LET reading_time == _calculate_reading_time(content.words)
        errors == _validate_markdown_syntax(content)
                  \o _validate_structure(content)
                  \o _validate_word_count(content.words)
                  \o _validate_reading_time(reading_time)
        warnings == IF content.objectives = 0 THEN <<"no_objectives">>
                    ELSE << >>
    IN  ValidationResult(errors, warnings,
                         <<content.words, reading_time, content.objectives>>)

\* ---- validate_summary ----
takeaway_errors_strict(t) ==
    (IF t.length < MIN_TAKEAWAY_LENGTH THEN <<"too_short">>
     ELSE IF t.length > MAX_TAKEAWAY_LENGTH THEN <<"too_long">> ELSE << >>)
    \o (IF t.blank THEN <<"empty">> ELSE << >>)

takeaway_errors(t) ==
    (IF t.length < MIN_TAKEAWAY_LENGTH THEN <<"too_short">> ELSE << >>)
    \o (IF t.blank THEN <<"empty">> ELSE << >>)

takeaway_warnings(t) ==
    IF t.length >= MIN_TAKEAWAY_LENGTH /\ t.length > MAX_TAKEAWAY_LENGTH
    THEN <<"too_long">> ELSE << >>

validate_summary(takeaways) ==
    LET n == Len(takeaways)
        errors ==
            (IF n < min_count THEN <<"too_few">>
             ELSE IF n > max_count THEN <<"too_many">> ELSE << >>)
            \o Concat([k \in 1..n |-> takeaway_errors(takeaways[k])])
        warnings == Concat([k \in 1..n |-> takeaway_warnings(takeaways[k])])
    IN  ValidationResult(errors, warnings, <<n>>)

\* ---- validate_quiz ----
index_in_range_wide(correct_index) ==
    0 <= correct_index /\ correct_index <= OPTION_COUNT

index_in_range(correct_index) ==
    0 <= correct_index /\ correct_index <= MAX_CORRECT_INDEX

\* one pass of the loop over the questions; a missing field ends the pass
question_errors(q) ==
    IF ~q.has_text THEN <<"missing_text">>
    ELSE IF ~q.has_options THEN <<"missing_options">>
    ELSE IF ~q.has_index THEN <<"missing_index">>
    ELSE (IF q.options # OPTION_COUNT THEN <<"option_count">> ELSE << >>)
         \o (IF ~index_in_range(q.correct_index) THEN <<"index_range">>
             ELSE << >>)
         \o (IF q.text = 0 THEN <<"empty_text">> ELSE << >>)
         \o [j \in 1..q.empty_options |-> "empty_option"]

question_warnings(q) ==
    IF q.has_text /\ q.has_options /\ q.has_index
       /\ q.difficulty = "unknown"
    THEN <<"difficulty">> ELSE << >>

\* q.get("question_text", ""): the blank text 0 stands for ""
question_text(q) == IF q.has_text THEN q.text ELSE 0

validate_quiz(questions, min_q, max_q) ==
    LET n == Len(questions)
        errors ==
            (IF n < min_q THEN <<"too_few">>
             ELSE IF n > max_q THEN <<"too_many">> ELSE << >>)
            \o Concat([k \in 1..n |-> question_errors(questions[k])])
        question_texts == {question_text(questions[k]) : k \in 1..n}
        warnings ==
            Concat([k \in 1..n |-> question_warnings(questions[k])])
            \o (IF n # Cardinality(question_texts) THEN <<"duplicate">>
                ELSE << >>)
    IN  ValidationResult(errors, warnings, <<n>>)

\* ---- validate_learning_booster ----
valid_types == {"analogy", "example", "explanation"}

validate_learning_booster_any_type(content, booster_type) ==
    LET errors ==
            (IF content.length < min_length THEN <<"too_short">>
             ELSE IF content.length > max_length THEN <<"too_long">>
             ELSE << >>)
            \o (IF content.blank THEN <<"empty">> ELSE << >>)
    IN  ValidationResult(errors, << >>, <<content.length, booster_type>>)

validate_learning_booster(content, booster_type) ==
    LET errors ==
            (IF content.length < min_length THEN <<"too_short">>
             ELSE IF content.length > max_length THEN <<"too_long">>
             ELSE << >>)
            \o (IF booster_type \notin valid_types THEN <<"bad_type">>
                ELSE << >>)
            \o (IF content.blank THEN <<"empty">> ELSE << >>)
    IN  ValidationResult(errors, << >>, <<content.length, booster_type>>)

\* ---- the inputs ----
\* chapter content: no token only for content without text
Chapters ==
    {c \in [tokens : 0..1, h1 : 0..MaxHeaders, h2 : 0..1,
            words : 0..MaxWords, objectives : 0..1] :
        c.tokens = 0 => c.h1 = 0 /\ c.h2 = 0 /\ c.words = 0
                         /\ c.objectives = 0}

\* a string of the given length; the empty string is blank
Strings(lengths) ==
    {s \in [length : lengths, blank : BOOLEAN] : s.length = 0 => s.blank}

Takeaways ==
    {s \in Strings({0, MIN_TAKEAWAY_LENGTH - 1, MIN_TAKEAWAY_LENGTH,
                    MAX_TAKEAWAY_LENGTH, MAX_TAKEAWAY_LENGTH + 1}) :
        s.blank => s.length \in {0, MIN_TAKEAWAY_LENGTH}}

TakeawayLists ==
    UNION {[1..n -> Takeaways] : n \in 0..MaxTakeaways}

\* a question dict: which required keys it has, len(options), how many
\* options are blank, correct_index, its text (0 for a blank one, 2 for
\* the text of the first well-formed question) and its difficulty; an
\* absent key has no value to differ in
Questions ==
    {q \in [has_text : BOOLEAN, has_options : BOOLEAN, has_index : BOOLEAN,
            options : {OPTION_COUNT - 1, OPTION_COUNT, OPTION_COUNT + 1},
            empty_options : 0..1,
            correct_index : {-1, 0, MAX_CORRECT_INDEX,
                             MAX_CORRECT_INDEX + 1},
            text : 0..2,
            difficulty : {"absent", "easy", "unknown"}] :
        /\ ~q.has_text => q.text = 0
        /\ ~q.has_options => q.options = OPTION_COUNT /\ q.empty_options = 0
        /\ ~q.has_index => q.correct_index = 0}

WellFormed(k) ==
    [has_text |-> TRUE, has_options |-> TRUE, has_index |-> TRUE,
     options |-> OPTION_COUNT, empty_options |-> 0, correct_index |-> 0,
     text |-> k + 1, difficulty |-> "easy"]

\* quizzes of well-formed questions with distinct texts, the last question
\* replaced by any question
Quizzes ==
    {<< >>} \cup
    {[k \in 1..n |-> IF k = n THEN q ELSE WellFormed(k)] :
        n \in 1..MaxQuestions, q \in Questions}

\* what _parse_quiz_json hands on: every element has the required keys
ParsedQuizzes ==
    {quiz \in Quizzes :
        \A k \in 1..Len(quiz) :
            quiz[k].has_text /\ quiz[k].has_options /\ quiz[k].has_index}

\* QuizGenerator.__init__: self.num_questions = max(5, min(7, num_questions))
clamp_num_questions(n) ==
    IF n < min_questions THEN min_questions
    ELSE IF n > max_questions THEN max_questions ELSE n

Boosters ==
    [content : Strings(0..MaxLength),
     booster_type : valid_types \cup {"other"}]

\* ---- the calls ----
ValidateChapter ==
    /\ val_pc = "idle"
    /\ \E content \in Chapters :
        /\ val_input' = content
        /\ val_result' = validate_chapter(content)
    /\ val_pc' = "chapter"
    /\ UNCHANGED <<batchVars, threadVars, clientVars, genVars>>

ValidateSummary ==
    /\ val_pc = "idle"
    /\ \E takeaways \in TakeawayLists :
        /\ val_input' = takeaways
        /\ val_result' = validate_summary(takeaways)
    /\ val_pc' = "summary"
    /\ UNCHANGED <<batchVars, threadVars, clientVars, genVars>>

ValidateQuiz ==
    /\ val_pc = "idle"
    /\ \E questions \in Quizzes :
        /\ val_input' = questions
        /\ val_result' = validate_quiz(questions, min_questions, max_questions)
    /\ val_pc' = "quiz"
    /\ UNCHANGED <<batchVars, threadVars, clientVars, genVars>>

ValidateBooster ==
    /\ val_pc = "idle"
    /\ \E b \in Boosters :
        /\ val_input' = b
        /\ val_result' = validate_learning_booster(b.content, b.booster_type)
    /\ val_pc' = "booster"
    /\ UNCHANGED <<batchVars, threadVars, clientVars, genVars>>

\* ---- generate_quiz validates the quiz it parsed ----
\* A QuizGenerator built with num_questions passes its clamped value as
\* both bounds of validate_quiz.
QuizGeneratorValidate ==
    /\ val_pc = "idle"
    /\ \E num \in 0..MaxQuestions, questions \in ParsedQuizzes :
          LET num_questions == clamp_num_questions(num)
          IN /\ val_input' = [questions |-> questions,
                              num_questions |-> num_questions,
                              default |-> (num = default_num_questions)]
             /\ val_result' = validate_quiz(questions, num_questions,
                                            num_questions)
    /\ val_pc' = "quiz_generator"
    /\ UNCHANGED <<batchVars, threadVars, clientVars, genVars>>

ValNext ==
    \/ ValidateChapter
    \/ ValidateSummary
    \/ ValidateQuiz
    \/ ValidateBooster
    \/ QuizGeneratorValidate

ValSpec == Init /\ [][ValNext]_vars

\* ======================= properties =======================

RECURSIVE SumTokens(_)
SumTokens(S) ==
    IF S = {} THEN 0
    ELSE LET u == CHOOSE x \in S : TRUE
         IN sresult[u] + SumTokens(S \ {u})

ChapterErrors(u) ==
    {k \in 1..Len(job.errors) :
        job.errors[k] = [kind |-> "chapter", unit |-> u]}

BatchFailed ==
    \E k \in 1..Len(job.errors) : job.errors[k].kind = "batch"

SummaryStageEntered == pc \in {"gather", "complete"} \/ (pc = "done" /\ ~BatchFailed)

DoneSummaries == {u \in SummaryUnits : spc[u] = "ok"}

\* C1: in every state of a batch job, chapters_completed <= chapters_total.
C1_CompletedWithinTotal == job.chapters_completed <= job.chapters_total

\* C2: once cancel_job has returned True, the job's status is failed in
\* every later state (the task never moves it to in_progress or completed).
C2_CancelledStaysFailed == cancels > 0 => job.status = "failed"

\* C3: once the status is completed or failed, chapters_completed,
\* token_usage and the error list never change again.
C3_TerminalFrozen ==
    [][is_complete(job) =>
          /\ job'.chapters_completed = job.chapters_completed
          /\ job'.token_usage = job.token_usage
          /\ job'.errors = job.errors]_vars

\* C4: without cancellation the status goes pending, in_progress, then one of
\* completed / failed: each step keeps it or takes one of these moves, it is
\* no longer pending once a unit has been dispatched, and it never leaves
\* completed or failed.
C4_StatusSequence ==
    [][cancels' = 0 =>
          /\ \/ job'.status = job.status
             \/ <<job.status, job'.status>> \in
                  {<<"pending", "in_progress">>,
                   <<"in_progress", "completed">>,
                   <<"in_progress", "failed">>}
          /\ (dispatched' # {} => job'.status # "pending")]_vars

C4_Witness == cancels = 0 /\ pc = "done" /\ job.status = "completed"

\* C5: every started batch job eventually has its task finished with the
\* status resolved to completed or failed.
C5_EventuallyResolved == stored ~> (pc = "done" /\ is_complete(job))

C5_Witness ==
    /\ pc = "done"
    /\ is_complete(job)
    /\ \E u \in SummaryUnits : spc[u] = "failed"
    /\ \E u \in SummaryUnits : unit_outcome[u] = "failed"

\* C6: a chapter unit whose processing raised has exactly one error record
\* naming it (a unit that did not raise has none), every unit has been
\* dispatched when the chapter loop is over, and the summary tasks of all
\* units have run when the task ends.
C6_UnitFailureContained ==
    /\ \A u \in Units :
          Cardinality(ChapterErrors(u)) =
              IF unit_outcome[u] = "failed" THEN 1 ELSE 0
    /\ SummaryStageEntered =>
          /\ dispatched = SummaryUnits
          /\ \A u \in SummaryUnits : spc[u] # "none"
    /\ (pc = "done" /\ ~BatchFailed) =>
          \A u \in SummaryUnits : spc[u] \in {"ok", "failed"}

C6_Witness ==
    /\ pc = "done"
    /\ curriculum = 2
    /\ unit_outcome[1] = "failed"
    /\ unit_outcome[2] = "ok"
    /\ spc[2] = "ok"

\* C7: a task that ends without an exception outside the per-unit and
\* summary handlers, on a job not cancelled, leaves the status completed
\* whatever the number of failed units; a job not cancelled is failed only
\* after such an exception.
C7_CompletedDespiteErrors ==
    /\ (pc = "done" /\ cancels = 0 /\ api_key) => job.status = "completed"
    /\ (job.status = "failed" /\ cancels = 0) => (~api_key /\ BatchFailed)

C7_Witness ==
    /\ pc = "done"
    /\ cancels = 0
    /\ curriculum = 2
    /\ \A u \in SummaryUnits : unit_outcome[u] = "failed" /\ spc[u] = "failed"
    /\ job.status = "completed"
    /\ Len(job.errors) = 3

\* C8: during and after the summary fan-out the job's counters reflect
\* every increment of the tasks that succeeded: chapters_completed has grown
\* by their number and token_usage by the sum of their tokens.
C8_NoLostIncrement ==
    SummaryStageEntered =>
        /\ job.chapters_completed =
              stage_base.chapters_completed + Cardinality(DoneSummaries)
        /\ job.token_usage =
              stage_base.token_usage + SumTokens(DoneSummaries)

C8_Witness ==
    /\ curriculum = 2
    /\ DoneSummaries = {1, 2}
    /\ stage_base.chapters_completed = 1

\* C9: after all summary threads finished, the shared client's
\* total_tokens_used is the sum of tokens_used of every successful call.
C9_ClientTotalIsSum ==
    (threads > 0 /\ \A u \in Threads : tpc[u] \in {"returned", "raised"}) =>
        total_tokens_used = provider_tokens

\* C10: a unit is dispatched only after every earlier unit has recorded its
\* progress increment or its error, and a summary task exists only after
\* every chapter unit has been dispatched and has recorded its outcome.
C10_SequentialChapters ==
    /\ \A u \in dispatched : \A v \in 1..(u - 1) : unit_outcome[v] # "none"
    /\ (\E u \in Units : spc[u] # "none") =>
          \A u \in SummaryUnits :
              u \in dispatched /\ unit_outcome[u] # "none"

C10_Witness ==
    /\ curriculum = 2
    /\ spc[1] # "none"
    /\ unit_outcome[1] = "ok"
    /\ unit_outcome[2] = "failed"

\* C11: a unit whose chapter generation succeeded has its chapter text on
\* disk by the time its summary task exists.
C11_ChapterTextPersisted ==
    \A u \in Units :
        (unit_outcome[u] = "ok" /\ spc[u] # "none") => u \in files

\* C12: one call of generate makes at most max_retries provider requests,
\* makes a further request only after a rate-limit or connection failure,
\* has made max_retries requests when it raises after such a failure, and
\* makes no request once it has raised.
C12_BoundedRetries ==
    /\ [](/\ requests <= max_retries
          /\ (cpc = "raised" /\ last_failure \in {"rate", "conn"}) =>
                requests = max_retries)
    /\ [][/\ (requests' = requests + 1 /\ requests > 0) =>
                last_failure \in {"rate", "conn"}
          /\ (cpc = "raised" /\ calls' = calls) => requests' = requests]_vars

C12_Witness ==
    /\ cpc = "raised"
    /\ max_retries = 3
    /\ requests = 3
    /\ backoffs = 2
    /\ last_failure = "rate"

\* C13: after a request failed with a non-retryable provider error or an
\* unexpected exception, the call has raised: the request was its last one
\* and no backoff sleep followed it, whatever the attempt.
C13_NonRetryableRaisesAtOnce ==
    last_failure \in {"api", "other"} =>
        /\ cpc = "raised"
        /\ gresult = 0
        /\ backoffs = requests - 1

C13_Witness ==
    /\ last_failure = "other"
    /\ requests = 2
    /\ cpc = "raised"

\* C14: the backoff delay of attempt k lies in [0, retry_delay * 2^k], and a
\* backoff sleep happens only when another provider request follows it:
\* never after the last allowed attempt.
C14_BackoffWithinBound ==
    /\ (cpc = "backoff" \/ (cpc = "raised" /\ last_failure \in {"rate", "conn"}))
          => (0 <= wait_time /\ wait_time <= retry_delay * 2^attempt)
    /\ cpc = "backoff" => attempt < max_retries - 1
    /\ cpc = "request" => backoffs = requests
    /\ (cpc \in {"raised", "returned", "buffer"} /\ requests > 0) =>
          backoffs = requests - 1

C14_Witness ==
    /\ cpc = "backoff"
    /\ attempt = 1
    /\ max_retries = 3
    /\ retry_delay = 1
    /\ wait_time = 2

\* C15: the client's total is 0 after construction, is the sum of the tokens
\* of the successful calls since construction or the last reset, is left
\* alone by a failed request, and get_total_tokens_used returns it unchanged.
C15_TokenCounter ==
    /\ [](/\ total_tokens_used = provider_tokens
          /\ (cpc = "ready" /\ calls = 0) => total_tokens_used = 0)
    /\ [][/\ (requests' = requests + 1 /\ gresult' = 0) =>
                total_tokens_used' = total_tokens_used
          /\ last_read' # last_read =>
                (last_read' = total_tokens_used
                 /\ total_tokens_used' = total_tokens_used)]_vars

C15_Witness ==
    /\ calls = 2
    /\ total_tokens_used = 3
    /\ last_read = 1
    /\ cpc = "returned"

\* C16: generate_with_rate_limit_buffer has slept the pacing delay exactly
\* once when it returns a result, sleeps only after generate returned, and
\* has not slept it when the call ends with GenerationError.
C16_BufferOnlyAfterSuccess ==
    /\ cpc = "returned" => buffers = (IF via_buffer THEN 1 ELSE 0)
    /\ cpc = "raised" => buffers = 0
    /\ cpc = "buffer" => (via_buffer /\ gresult > 0 /\ buffers = 0)

C16_Witness ==
    /\ cpc = "returned"
    /\ via_buffer
    /\ buffers = 1
    /\ requests = 2

\* C17: chapter generator with enforce_word_count: after an attempt whose
\* word count is out of range, the generator is on its next attempt while
\* attempts remain; after the last allowed attempt it has returned a result
\* with validation_passed = false and generation_attempts = the cap.
C17_ChapterWordCountRetry ==
    (/\ gen_kind = "chapter"
     /\ enforce
     /\ Len(history) > 0
     /\ history[Len(history)] = "invalid") =>
        IF Len(history) < max_attempts
           THEN gen_pc = "drafting" /\ gen_attempt = Len(history) + 1
           ELSE /\ gen_pc = "returned"
                /\ ~gen_result.validation_passed
                /\ gen_result.generation_attempts = max_attempts

C17_Witness ==
    /\ gen_kind = "chapter"
    /\ enforce
    /\ max_attempts = 3
    /\ history = <<"invalid", "invalid", "invalid">>
    /\ gen_pc = "returned"

\* C18: summary and quiz generators with enforce_validation: after a parsed
\* output that failed validation, the generator is on its next attempt while
\* attempts remain; after the last allowed attempt it has returned that
\* content with validation_passed = false, without raising.
C18_ValidationRetry ==
    \A n \in 1..Len(history) :
        (/\ gen_kind \in {"summary", "quiz"}
         /\ enforce
         /\ history[n] = "invalid") =>
            IF n < max_attempts
               THEN n < Len(history) \/ (gen_pc = "drafting" /\ gen_attempt = n + 1)
               ELSE /\ n = Len(history)
                    /\ gen_pc = "returned"
                    /\ ~gen_result.validation_passed
                    /\ gen_result.generation_attempts = n

C18_Witness ==
    /\ gen_kind = "summary"
    /\ enforce
    /\ max_attempts = 2
    /\ history = <<"unparseable", "invalid">>
    /\ gen_pc = "returned"

\* C19: summary, quiz and booster generators: after an output that failed
\* to parse (no JSON array, or an array whose elements lack the required
\* shape) the generator is on its next attempt while attempts remain, and
\* after the last allowed attempt it has raised GenerationError and returned
\* no result.
C19_ParseFailureRetries ==
    (/\ gen_kind \in {"summary", "quiz", "booster"}
     /\ Len(history) > 0
     /\ history[Len(history)] \in {"unparseable", "bad_item"}) =>
        IF Len(history) < max_attempts
           THEN gen_pc = "drafting" /\ gen_attempt = Len(history) + 1
           ELSE gen_pc = "raised_generation" /\ gen_result = NoGenResult

\* C20 as stated: a generator (called with a cap of at least 1) ends with
\* GenerationError only after every one of its attempts failed to parse; the
\* chapter generator never does.
C20_ExhaustedOnlyByParse ==
    (gen_pc = "raised_generation" /\ max_attempts >= 1) =>
        /\ gen_kind # "chapter"
        /\ Len(history) = max_attempts
        /\ \A n \in 1..Len(history) :
              history[n] \in {"unparseable", "bad_item"}

\* C20 amended: a generator (called with a cap of at least 1) ends with
\* GenerationError only on its last allowed attempt, when that attempt's
\* provider call raised GenerationError or its output failed to parse; the
\* chapter generator only when the provider call of its last attempt
\* failed; a provider-call failure on an earlier attempt is followed by a
\* further attempt.
C20_RaisedOnLastAttemptOnly ==
    /\ (gen_pc = "raised_generation" /\ max_attempts >= 1) =>
          /\ Len(history) = max_attempts
          /\ gen_result = NoGenResult
          /\ \/ history[Len(history)] = "provider_error"
             \/ (gen_kind # "chapter" /\ history[Len(history)] = "unparseable")
             \/ (gen_kind \in {"summary", "quiz"}
                 /\ history[Len(history)] = "bad_item")
    /\ \A n \in 1..Len(history) :
          (history[n] = "provider_error" /\ n < max_attempts) =>
              (n < Len(history) \/ (gen_pc = "drafting" /\ gen_attempt = n + 1))

C20_Witness ==
    /\ gen_kind = "chapter"
    /\ max_attempts = 3
    /\ history = <<"provider_error", "invalid", "provider_error">>
    /\ gen_pc = "raised_generation"

\* C21: chapter generator with enforce_word_count and every client call
\* succeeding: when attempts 1..k-1 were out of range and attempt k is in
\* range, the generator has returned a result with generation_attempts = k
\* and validation_passed = true after exactly k client calls (k <= the cap).
C21_ChapterSucceedsOnAttemptK ==
    (/\ gen_kind = "chapter"
     /\ enforce
     /\ Len(history) >= 1
     /\ \A n \in 1..(Len(history) - 1) : history[n] = "invalid"
     /\ history[Len(history)] = "valid") =>
        /\ gen_pc = "returned"
        /\ gen_result.generation_attempts = Len(history)
        /\ gen_result.validation_passed
        /\ gen_calls = Len(history)
        /\ Len(history) <= max_attempts

C21_Witness ==
    /\ gen_kind = "chapter"
    /\ enforce
    /\ max_attempts = 3
    /\ history = <<"invalid", "invalid", "valid">>
    /\ gen_result.generation_attempts = 3

\* C22: when the summary stage is over, every unit's summary task has
\* reached its own outcome, the job holds exactly one stage-level error
\* record if some summary failed (it counts the failed ones) and none
\* otherwise, and the task of a job not cancelled ends with status completed.
C22_SummaryFailureContained ==
    (pc \in {"complete", "done"} /\ ~BatchFailed) =>
        LET failed == {u \in SummaryUnits : spc[u] = "failed"}
            records == {k \in 1..Len(job.errors) :
                           job.errors[k].kind = "summaries"}
        IN /\ \A u \in SummaryUnits : spc[u] \in {"ok", "failed"}
           /\ Cardinality(records) = IF failed = {} THEN 0 ELSE 1
           /\ \A k \in records : job.errors[k].unit = Cardinality(failed)
           /\ (pc = "done" /\ cancels = 0) => job.status = "completed"

C22_Witness ==
    /\ pc = "done"
    /\ curriculum = 2
    /\ spc[1] = "failed"
    /\ spc[2] = "ok"
    /\ 1 \in files
    /\ job.status = "completed"
    /\ Len(job.errors) = 1

\* ---- the content validator ----
CountOf(seq, tag) == Cardinality({k \in DOMAIN seq : seq[k] = tag})

Violated(rule) == IF rule THEN 1 ELSE 0

RECURSIVE SumSeq(_)
SumSeq(seq) == IF seq = << >> THEN 0 ELSE Head(seq) + SumSeq(Tail(seq))

\* C23: validate_chapter reports a word-count error if and only if the
\* counted word count is below 800 or above 1200.
C23_WordCountErrorIffOutOfRange ==
    val_pc = "chapter" =>
        LET word_count_errors ==
                CountOf(val_result.errors, "word_count_low")
                + CountOf(val_result.errors, "word_count_high")
        IN  (word_count_errors >= 1)
            <=> (val_input.words < 800 \/ val_input.words > 1200)

C23_Witness ==
    /\ val_pc = "chapter"
    /\ val_input.words = 1200
    /\ val_input.h1 = 1
    /\ val_input.h2 = 1
    /\ val_result.valid
    /\ val_result.metrics[1] = 1200

\* C24: validate_summary answers valid exactly when there are 3 to 5
\* takeaways, each non-blank and at least 50 characters long; a takeaway of
\* more than 150 characters is a warning and never an error.
C24_SummaryValidity ==
    val_pc = "summary" =>
        LET n == Len(val_input)
            long == {k \in 1..n : val_input[k].length > 150}
        IN  /\ val_result.valid
               <=> /\ n >= 3
                   /\ n <= 5
                   /\ \A k \in 1..n :
                        ~val_input[k].blank /\ val_input[k].length >= 50
            /\ CountOf(val_result.warnings, "too_long") = Cardinality(long)
            /\ CountOf(val_result.errors, "too_long") = 0
            /\ n < 3 \/ n > 5 => ~val_result.valid
            /\ (\E k \in 1..n : val_input[k].length < 50)
               => ~val_result.valid

C24_Witness ==
    /\ val_pc = "summary"
    /\ Len(val_input) = 3
    /\ val_input[2].length = 151
    /\ val_result.valid
    /\ val_result.warnings = <<"too_long">>

C26_BoosterValidity ==
    val_pc = "booster" =>
        LET content == val_input.content
            length_ok == content.length >= 100 /\ content.length <= 300
            type_ok == val_input.booster_type
                           \in {"analogy", "example", "explanation"}
        IN  /\ val_result.valid
               <=> length_ok /\ ~content.blank /\ type_ok
            /\ Len(val_result.errors)
               = Violated(~length_ok) + Violated(content.blank)
                 + Violated(~type_ok)

C26_Witness ==
    /\ val_pc = "booster"
    /\ val_input.content.length = 301
    /\ val_input.content.blank
    /\ val_input.booster_type = "other"
    /\ val_result.errors = <<"too_long", "bad_type", "empty">>

RECURSIVE SumResults(_)
SumResults(S) ==
    IF S = {} THEN 0
    ELSE LET u == CHOOSE x \in S : TRUE
         IN tresult[u] + SumResults(S \ {u})

\* C35: the tokens_used of the results handed to the orchestrator, which
\* _increment_job_progress adds to the job's token_usage, sum to at most
\* the client's running total.
C35_ResultTokensWithinClientTotal ==
    (threads > 0 /\ \A u \in Threads : tpc[u] \in {"returned", "raised"}) =>
        SumResults(Threads) <= total_tokens_used

\* C36: a quiz generator built with its defaults finds every parsed quiz of
\* 5, 6 or 7 well-formed questions valid.
C36_DefaultQuizAcceptsFiveToSeven ==
    (/\ val_pc = "quiz_generator"
     /\ val_input.default
     /\ Len(val_input.questions) \in {5, 6, 7}
     /\ \A k \in 1..Len(val_input.questions) :
            LET q == val_input.questions[k]
            IN  /\ q.options = 4
                /\ q.empty_options = 0
                /\ q.correct_index >= 0
                /\ q.correct_index <= 3
                /\ q.text # 0) =>
        val_result.valid

\* C37: a cancel_job call that finds no job, or a completed or failed one,
\* returns False and leaves the job as it is; on a pending or in_progress
\* job it returns True, sets status failed and completed_at, appends one
\* cancellation error and leaves chapters_completed and token_usage alone.
C37_CancelJob ==
    [][/\ (cancel_call' # cancel_call /\ ~cancel_call'.returned) =>
              /\ ~cancel_call'.found \/ job.status \in {"completed", "failed"}
              /\ job' = job
              /\ stored' = stored
       /\ (cancel_call' # cancel_call \/ cancels' # cancels) =>
              cancel_call'.returned
              = (/\ cancel_call'.found
                 /\ job.status \in {"pending", "in_progress"})
       /\ cancels' # cancels =>
              /\ cancel_call'.returned
              /\ job'.status = "failed"
              /\ job'.completed_at
              /\ job'.errors
                 = Append(job.errors, [kind |-> "cancel", unit |-> 0])
              /\ job'.chapters_completed = job.chapters_completed
              /\ job'.token_usage = job.token_usage
              /\ job'.chapters_total = job.chapters_total]_vars

C37_Witness ==
    /\ cancels = 1
    /\ cancel_call = [made |-> TRUE, found |-> TRUE, returned |-> FALSE]
    /\ job.status = "failed"
    /\ job.completed_at
    /\ Len(job.errors) = 1

\* C38: a chapter that generate_chapter returned with validation_passed =
\* FALSE is a produced unit: its row is stored as FAILED and the task goes on
\* to the progress increment, not to the error handler.
C38_DegradedChapterIsProduced ==
    (result # NoResult /\ ~result.validation_passed) =>
        /\ pc = "increment"
        /\ chapter_rows[i] = "failed"

\* C39: a chapter with one H1, an H2 and 800 to 1200 counted words is
\* valid; its reading time is 5 to 7 minutes.
C39_InRangeChapterValid ==
    (/\ val_pc = "chapter"
     /\ val_input.tokens = 1
     /\ val_input.h1 = 1
     /\ val_input.h2 >= 1
     /\ val_input.words >= 800
     /\ val_input.words <= 1200) =>
        /\ val_result.valid
        /\ val_result.metrics[2] >= 5
        /\ val_result.metrics[2] <= 7

\* the rules a question breaks, each taken on its own
QuestionViolations(q) ==
    Violated(~q.has_text) + Violated(~q.has_options)
    + Violated(~q.has_index)
    + Violated(q.has_options /\ q.options # 4)
    + Violated(q.has_index /\ (q.correct_index < 0 \/ q.correct_index > 3))
    + Violated(q.has_text /\ q.text = 0)
    + (IF q.has_options THEN q.empty_options ELSE 0)

\* C27: every validator writes one error for every rule the input breaks,
\* whatever the other checks found, and answers valid exactly when it
\* wrote no error.
C27_OneErrorPerViolatedRule ==
    /\ val_result.valid <=> val_result.errors = << >>
    /\ val_pc = "chapter" =>
        Len(val_result.errors)
        = Violated(val_input.tokens = 0) + Violated(val_input.h1 # 1)
          + Violated(val_input.h2 = 0)
          + Violated(val_input.words < 800 \/ val_input.words > 1200)
          + Violated(val_result.metrics[2] < 5 \/ val_result.metrics[2] > 7)
    /\ val_pc = "summary" =>
        Len(val_result.errors)
        = Violated(Len(val_input) < 3 \/ Len(val_input) > 5)
          + SumSeq([k \in 1..Len(val_input) |->
                        Violated(val_input[k].length < 50)
                        + Violated(val_input[k].blank)])
    /\ val_pc = "quiz" =>
        Len(val_result.errors)
        = Violated(Len(val_input) < 5 \/ Len(val_input) > 7)
          + SumSeq([k \in 1..Len(val_input) |->
                        QuestionViolations(val_input[k])])
    /\ val_pc = "booster" =>
        Len(val_result.errors)
        = Violated(val_input.content.length < 100
                   \/ val_input.content.length > 300)
          + Violated(val_input.content.blank)
          + Violated(val_input.booster_type
                         \notin {"analogy", "example", "explanation"})

\* C28: the pacing sleep is taken after unit i exactly when unit i succeeded
\* and is not the last unit, and a run takes at most N - 1 of them.
C28_PacingSleep ==
    /\ \A u \in slept : unit_outcome[u] = "ok" /\ u < curriculum
    /\ \A u \in Units :
          (unit_outcome[u] = "ok" /\ u < curriculum /\ i > u) => u \in slept
    /\ curriculum >= 1 => Cardinality(slept) <= curriculum - 1

C28_Witness ==
    /\ curriculum = 2
    /\ slept = {1}
    /\ unit_outcome[2] = "ok"
    /\ pc = "done"

\* C29: the step that records a failed chapter unit leaves
\* chapters_completed and token_usage alone and adds one error; the step
\* that records a succeeded one adds 1 to chapters_completed and the
\* result's tokens_used to token_usage and no error; dispatching a unit
\* changes nothing of the job.
C29_ChapterUnitEffect ==
    [][/\ dispatched' # dispatched => job' = job
       /\ \A u \in Units :
             /\ (unit_outcome[u] = "none" /\ unit_outcome'[u] = "failed") =>
                   /\ job'.chapters_completed = job.chapters_completed
                   /\ job'.token_usage = job.token_usage
                   /\ Len(job'.errors) = Len(job.errors) + 1
             /\ (unit_outcome[u] = "none" /\ unit_outcome'[u] = "ok") =>
                   /\ job'.chapters_completed = job.chapters_completed + 1
                   /\ job'.token_usage = job.token_usage + result.tokens_used
                   /\ result.tokens_used > 0
                   /\ job'.errors = job.errors]_vars

C29_Witness ==
    /\ curriculum = 2
    /\ unit_outcome[1] = "failed"
    /\ unit_outcome[2] = "ok"
    /\ spc[1] = "none"
    /\ job.chapters_completed = 1
    /\ job.token_usage = 2
    /\ Len(job.errors) = 1

\* C30: summary, quiz and booster generators: when an attempt's output
\* failed to parse and a further attempt follows, the prompt of that attempt
\* is the prompt just sent with the format instructions appended.
C30_FormatEmphasisAppended ==
    (/\ gen_kind \in {"summary", "quiz", "booster"}
     /\ gen_pc = "drafting"
     /\ Len(history) >= 1
     /\ history[Len(history)] \in {"unparseable", "bad_item"}) =>
        user_prompt = Append(sent_prompt, "format")

C32_MisshapenItemIsParseFailure ==
    (/\ gen_kind \in {"summary", "quiz", "booster"}
     /\ history # << >>
     /\ history[Len(history)] = "bad_item") =>
        gen_pc = IF Len(history) < max_attempts THEN "drafting"
                                                ELSE "raised_generation"

\* C33: a generator ends with a result or with GenerationError, makes at
\* most max attempts calls of the client, and a result records between 1
\* and max attempts attempts.
C33_ResultOrGenerationError ==
    /\ gen_pc \in {"none", "drafting", "returned", "raised_generation"}
    /\ gen_calls <= max_attempts
    /\ gen_pc = "returned" =>
          /\ gen_result.generation_attempts >= 1
          /\ gen_result.generation_attempts <= max_attempts

C40_RequestsBounded ==
    /\ gen_requests <= max_attempts * client_retries
    /\ (/\ history # << >>
        /\ history[Len(history)] = "provider_error"
        /\ Len(history) < max_attempts) =>
          /\ gen_pc = "drafting"
          /\ gen_attempt = Len(history) + 1
          /\ user_prompt = sent_prompt

C40_Witness ==
    /\ gen_kind = "summary"
    /\ max_attempts = 2
    /\ client_retries = 2
    /\ history = <<"provider_error", "valid">>
    /\ gen_requests = 4
    /\ gen_pc = "returned"

====
